---- MODULE Spec2Model ----
(***************************************************************************)
(* GitBlameProvider (src/src/gitBlameProvider.ts): a per-file cache of     *)
(* promises of parsed "git blame" output, invalidated by the editor's      *)
(* close/change notifications, with range and sha-range views.             *)
(*                                                                         *)
(* Text model.  A raw attribution text is a sequence of text lines; a text *)
(* line is a record of the character runs that the capture groups of       *)
(* blameMatcher would take from it (sha, fileName, originalLine, author,   *)
(* date, line), each run a sequence of one-character strings.  The matcher *)
(* decides from the character classes of the pattern whether a text line   *)
(* matches; blameMatcher.lastIndex counts the text lines already consumed. *)
(***************************************************************************)
EXTENDS Integers, Sequences, FiniteSets, TLC

(***************************************************************************)
(* Bounds of the model.                                                    *)
(***************************************************************************)
MaxComputations == 2
MaxRequests == 1
MaxTextLines == 3
MaxRangeLine == 3

MaxCharacter == 1

(***************************************************************************)
(* Character classes of blameMatcher.                                      *)
(***************************************************************************)
Digits == <<"0", "1", "2", "3", "4", "5", "6", "7", "8", "9">>

DigitChars == {Digits[i] : i \in 1..Len(Digits)}

HexChars == DigitChars \cup {"a", "b", "c", "d", "e", "f", "A", "B", "C", "D", "E", "F"}

SpaceChars == {" "}

ShaLen == 8

YearLen == 4

FieldLen == 2

ZoneLen == 4

\* JavaScript values of differing kinds are records, so that any two compare
undefined == [undefined |-> TRUE]

Num(n) == [nan |-> FALSE, value |-> n]

NaN == [nan |-> TRUE, value |-> 0]

SeqToSet(s) == {s[i] : i \in 1..Len(s)}

Min(a, b) == IF a < b THEN a ELSE b

Max(a, b) == IF a < b THEN b ELSE a

IsDigitRun(t) == Len(t) >= 1 /\ SeqToSet(t) \subseteq DigitChars

\* ([\^0-9a-fA-F]{8})
IsShaRun(t) == Len(t) = ShaLen /\ SeqToSet(t) \subseteq (HexChars \cup {"^"})

\* ([\S]*)
IsFileRun(t) == SeqToSet(t) \cap SpaceChars = {}

\* ([0-9\S]+)
IsOriginalLineRun(t) == Len(t) >= 1 /\ SeqToSet(t) \cap SpaceChars = {}

\* ([0-9]{4}-[0-9]{2}-[0-9]{2}\s[0-9]{2}:[0-9]{2}:[0-9]{2}\s[-|+][0-9]{4})
IsDateRun(d) ==
    /\ IsDigitRun(d.year) /\ Len(d.year) = YearLen
    /\ \A k \in {"month", "day", "hour", "minute", "second"} :
          IsDigitRun(d[k]) /\ Len(d[k]) = FieldLen
    /\ d.sign \in {"-", "|", "+"}
    /\ IsDigitRun(d.zone) /\ Len(d.zone) = ZoneLen

\* one text line against the whole pattern (author is (.*): any run)
Matches(l) ==
    /\ IsShaRun(l.sha)
    /\ IsFileRun(l.fileName)
    /\ IsOriginalLineRun(l.originalLine)
    /\ IsDateRun(l.date)
    /\ IsDigitRun(l.line)

(***************************************************************************)
(* String.prototype.trim, parseInt(s, 10) and new Date(s).                 *)
(***************************************************************************)
RECURSIVE TrimLeft(_)
TrimLeft(s) == IF s # <<>> /\ Head(s) \in SpaceChars THEN TrimLeft(Tail(s)) ELSE s

RECURSIVE TrimRight(_)
TrimRight(s) ==
    IF s # <<>> /\ s[Len(s)] \in SpaceChars THEN TrimRight(SubSeq(s, 1, Len(s) - 1)) ELSE s

trim(s) == TrimRight(TrimLeft(s))

DigitValue(c) == CHOOSE v \in 0..9 : Digits[v + 1] = c

RECURSIVE LeadingDigits(_)
LeadingDigits(s) ==
    IF s # <<>> /\ Head(s) \in DigitChars THEN <<Head(s)>> \o LeadingDigits(Tail(s)) ELSE <<>>

RECURSIVE DecimalValue(_)
DecimalValue(ds) ==
    IF ds = <<>> THEN 0
    ELSE 10 * DecimalValue(SubSeq(ds, 1, Len(ds) - 1)) + DigitValue(ds[Len(ds)])

\* parseInt(s, 10) of a run without leading blanks or sign
parseInt(s) == IF LeadingDigits(s) = <<>> THEN NaN ELSE Num(DecimalValue(LeadingDigits(s)))

\* parseInt(s, 10) - 1
MinusOne(n) == IF n.nan THEN NaN ELSE Num(n.value - 1)

\* days since 1970-01-01 of a proleptic Gregorian date
DaysFromCivil(y, m, d) ==
    LET yy  == IF m <= 2 THEN y - 1 ELSE y
        era == yy \div 400
        yoe == yy - era * 400
        mp  == IF m > 2 THEN m - 3 ELSE m + 9
        doy == (153 * mp + 2) \div 5 + d - 1
        doe == yoe * 365 + yoe \div 4 - yoe \div 100 + doy
    IN  era * 146097 + doe - 719468

\* new Date("YYYY-MM-DD HH:MM:SS +ZZZZ"): the instant, in seconds since the epoch
\* (NaN is the time value of an Invalid Date)
NewDate(d) ==
    LET zone == DecimalValue(d.zone)
        off  == ((zone \div 100) * 60 + (zone % 100)) * 60
        loc  == ((DaysFromCivil(DecimalValue(d.year), DecimalValue(d.month), DecimalValue(d.day)) * 24
                    + DecimalValue(d.hour)) * 60 + DecimalValue(d.minute)) * 60
                 + DecimalValue(d.second)
    IN  IF d.sign = "+" THEN Num(loc - off)
        ELSE IF d.sign = "-" THEN Num(loc + off)
        ELSE NaN

(***************************************************************************)
(* Map<string, T> as a function on its key set.                            *)
(***************************************************************************)
EmptyMap == [k \in {} |-> undefined]

MapHas(m, k) == k \in DOMAIN m

MapGet(m, k) == IF k \in DOMAIN m THEN m[k] ELSE undefined

MapSet(m, k, v) == [x \in DOMAIN m \cup {k} |-> IF x = k THEN v ELSE m[x]]

(***************************************************************************)
(* blameMatcher.exec(data) from lastIndex: the next matching text line     *)
(* after the lines already consumed, or null with lastIndex reset to 0.    *)
(***************************************************************************)
NextMatch(data, lastIndex) ==
    LET later == {i \in (lastIndex + 1)..Len(data) : Matches(data[i])}
    IN  IF later = {} THEN 0 ELSE CHOOSE i \in later : \A j \in later : i <= j

\* a commits.set without the commits.has test: the last line of a hash wins
AddCommitLastWins(commits, m) ==
    MapSet(commits, m.sha,
           [sha |-> m.sha, fileName |-> trim(m.fileName),
            author |-> trim(m.author), date |-> NewDate(m.date)])

\* commits.set(sha, {...}) unless commits.has(sha)
AddCommit(commits, m) ==
    IF MapHas(commits, m.sha) THEN commits
    ELSE MapSet(commits, m.sha,
                [sha |-> m.sha, fileName |-> trim(m.fileName),
                 author |-> trim(m.author), date |-> NewDate(m.date)])

\* lines.push({...})
AddLine(lines, m) ==
    Append(lines, [sha |-> m.sha,
                   originalLine |-> MinusOne(parseInt(m.originalLine)),
                   line |-> MinusOne(parseInt(m.line))])

\* a loop that stops at the last match without the failing exec that resets
\* lastIndex
RECURSIVE ParseLoopNoReset(_, _, _, _)
ParseLoopNoReset(data, lastIndex, commits, lines) ==
    LET i == NextMatch(data, lastIndex)
    IN  IF i = 0 THEN [commits |-> commits, lines |-> lines, lastIndex |-> lastIndex]
        ELSE ParseLoopNoReset(data, i, AddCommit(commits, data[i]), AddLine(lines, data[i]))

\* the while loop of the then-callback of blameFile
RECURSIVE ParseLoop(_, _, _, _)
ParseLoop(data, lastIndex, commits, lines) ==
    LET i == NextMatch(data, lastIndex)
    IN  IF i = 0 THEN [commits |-> commits, lines |-> lines, lastIndex |-> 0]
        ELSE ParseLoop(data, i, AddCommit(commits, data[i]), AddLine(lines, data[i]))

\* the then-callback of blameFile, entered with the matcher's current lastIndex
ParseBlame(data, lastIndex) == ParseLoop(data, lastIndex, EmptyMap, <<>>)

(***************************************************************************)
(* Array.prototype.slice, Array.prototype.filter, _.uniqBy(lines, 'sha').  *)
(***************************************************************************)
slice(arr, start, end) ==
    LET len   == Len(arr)
        k     == IF start < 0 THEN Max(len + start, 0) ELSE Min(start, len)
        final == IF end < 0 THEN Max(len + end, 0) ELSE Min(end, len)
    IN  [i \in 1..Max(final - k, 0) |-> arr[k + i]]

RECURSIVE FilterSha(_, _)
FilterSha(lines, sha) ==
    IF lines = <<>> THEN <<>>
    ELSE IF Head(lines).sha = sha THEN <<Head(lines)>> \o FilterSha(Tail(lines), sha)
    ELSE FilterSha(Tail(lines), sha)

RECURSIVE uniqBySha(_, _)
uniqBySha(lines, seen) ==
    IF lines = <<>> THEN <<>>
    ELSE IF Head(lines).sha \in seen THEN uniqBySha(Tail(lines), seen)
    ELSE <<Head(lines)>> \o uniqBySha(Tail(lines), seen \cup {Head(lines).sha})

\* forEach(l => commits.set(l.sha, blame.commits.get(l.sha)))
\* a commit map that takes over every commit of the full blame
SetCommitsAll(commits, uniq, blame) == blame.commits

RECURSIVE SetCommits(_, _, _)
SetCommits(commits, uniq, blame) ==
    IF uniq = <<>> THEN commits
    ELSE SetCommits(MapSet(commits, Head(uniq).sha, MapGet(blame.commits, Head(uniq).sha)),
                    Tail(uniq), blame)

\* a slice that leaves the end line out
BlameForRangeEndExclusive(blame, range) ==
    IF Len(blame.lines) = 0
    THEN [object |-> "blame", commits |-> blame.commits, lines |-> blame.lines]
    ELSE LET lines == slice(blame.lines, range.start.line, range.end.line)
         IN  [object |-> "new",
              commits |-> SetCommits(EmptyMap, uniqBySha(lines, {}), blame),
              lines |-> lines]

\* a range view without the test for an empty blame
BlameForRangeNoEmptyTest(blame, range) ==
    LET lines == slice(blame.lines, range.start.line, range.end.line + 1)
    IN  [object |-> "new",
         commits |-> SetCommits(EmptyMap, uniqBySha(lines, {}), blame),
         lines |-> lines]

\* the then-callback of getBlameForRange; object tells whether the value is
\* the cached blame object itself or a newly built one
BlameForRange(blame, range) ==
    IF Len(blame.lines) = 0
    THEN [object |-> "blame", commits |-> blame.commits, lines |-> blame.lines]
    ELSE LET lines == slice(blame.lines, range.start.line, range.end.line + 1)
         IN  [object |-> "new",
              commits |-> SetCommits(EmptyMap, uniqBySha(lines, {}), blame),
              lines |-> lines]

\* a sha view that filters the whole file instead of the range
BlameForShaRangeWholeFile(blame, sha, range) ==
    [commit |-> MapGet(blame.commits, sha),
     lines |-> FilterSha(blame.lines, sha)]

\* the then-callback of getBlameForShaRange
BlameForShaRange(blame, sha, range) ==
    [commit |-> MapGet(blame.commits, sha),
     lines |-> FilterSha(slice(blame.lines, range.start.line, range.end.line + 1), sha)]

(***************************************************************************)
(* Strings as sequences of characters, and the functions of the path      *)
(* module (POSIX flavour) used by toBlameUri.                              *)
(***************************************************************************)
Quote == "\""

Backslash == "\\"

\* "" + n for a non-negative integer
RECURSIVE NumberToString(_)
NumberToString(n) ==
    IF n < 10 THEN <<Digits[n + 1]>>
    ELSE NumberToString(n \div 10) \o <<Digits[(n % 10) + 1]>>

\* the 0-based position of the last c in s, -1 without one (lastIndexOf)
lastIndexOf(s, c) ==
    LET at == {i \in 1..Len(s) : s[i] = c}
    IN  IF at = {} THEN -1 ELSE (CHOOSE i \in at : \A j \in at : j <= i) - 1

\* the 0-based position of the first character of s in the set cs, Len(s) without one
FirstOf(s, cs) ==
    LET at == {i \in 1..Len(s) : s[i] \in cs}
    IN  IF at = {} THEN Len(s) ELSE (CHOOSE i \in at : \A j \in at : i <= j) - 1

RECURSIVE StripTrailingSlashes(_)
StripTrailingSlashes(p) ==
    IF p # <<>> /\ p[Len(p)] = "/" THEN StripTrailingSlashes(SubSeq(p, 1, Len(p) - 1)) ELSE p

\* path.basename(p)
Basename(p) ==
    LET t == StripTrailingSlashes(p)
    IN  slice(t, lastIndexOf(t, "/") + 1, Len(t))

\* path.extname(p): from the last dot of the base name, unless the name starts with it
extname(p) ==
    LET base == Basename(p)
        dot  == lastIndexOf(base, ".")
    IN  IF dot <= 0 \/ base = <<".", ".">> THEN <<>> ELSE slice(base, dot, Len(base))

\* path.basename(p, ext)
basename(p, ext) ==
    LET base == Basename(p)
        n    == Len(base) - Len(ext)
    IN  IF ext # <<>> /\ n > 0 /\ slice(base, n, Len(base)) = ext THEN slice(base, 0, n)
        ELSE base

\* path.dirname(p)
dirname(p) ==
    LET t   == StripTrailingSlashes(p)
        end == lastIndexOf(t, "/")
    IN  IF p = <<>> THEN <<".">>
        ELSE IF end <= 0 THEN (IF p[1] = "/" THEN <<"/">> ELSE <<".">>)
        ELSE IF end = 1 /\ p[1] = "/" THEN <<"/", "/">>
        ELSE slice(p, 0, end)

\* p.split("/")
RECURSIVE Split(_)
Split(p) ==
    LET i == FirstOf(p, {"/"})
    IN  IF i = Len(p) THEN <<p>> ELSE <<slice(p, 0, i)>> \o Split(slice(p, i + 1, Len(p)))

\* normalizeString: the segments of a path without "", "." and resolved ".."
RECURSIVE NormalizeSegments(_, _, _)
NormalizeSegments(segs, out, allowAboveRoot) ==
    IF segs = <<>> THEN out
    ELSE LET g == Head(segs)
         IN  IF g = <<>> \/ g = <<".">> THEN NormalizeSegments(Tail(segs), out, allowAboveRoot)
             ELSE IF g = <<".", ".">>
             THEN IF out # <<>> /\ out[Len(out)] # <<".", ".">>
                  THEN NormalizeSegments(Tail(segs), SubSeq(out, 1, Len(out) - 1), allowAboveRoot)
                  ELSE IF allowAboveRoot
                  THEN NormalizeSegments(Tail(segs), Append(out, g), allowAboveRoot)
                  ELSE NormalizeSegments(Tail(segs), out, allowAboveRoot)
             ELSE NormalizeSegments(Tail(segs), Append(out, g), allowAboveRoot)

\* segs.join("/")
RECURSIVE JoinSegments(_)
JoinSegments(segs) ==
    IF segs = <<>> THEN <<>>
    ELSE IF Len(segs) = 1 THEN Head(segs)
    ELSE Head(segs) \o <<"/">> \o JoinSegments(Tail(segs))

\* path.normalize(p)
normalize(p) ==
    LET isAbsolute == p # <<>> /\ p[1] = "/"
        trailing   == p # <<>> /\ p[Len(p)] = "/"
        body       == JoinSegments(NormalizeSegments(Split(p), <<>>, ~isAbsolute))
        tail       == IF body # <<>> /\ trailing THEN body \o <<"/">> ELSE body
    IN  IF p = <<>> THEN <<".">>
        ELSE IF isAbsolute THEN <<"/">> \o tail
        ELSE IF body = <<>> THEN (IF trailing THEN <<".", "/">> ELSE <<".">>)
        ELSE tail

\* path.join(a, b)
join(a, b) ==
    IF a = <<>> /\ b = <<>> THEN <<".">>
    ELSE IF a = <<>> THEN normalize(b)
    ELSE IF b = <<>> THEN normalize(a)
    ELSE normalize(a \o <<"/">> \o b)

(***************************************************************************)
(* moment(date).format('MMM D, YYYY hh:MMa') in a zone utcOffset minutes   *)
(* east of UTC: short month name, day, year, 12-hour hour, the month       *)
(* number in two digits (MM) and am/pm.                                    *)
(***************************************************************************)
MonthsShort ==
    << <<"J", "a", "n">>, <<"F", "e", "b">>, <<"M", "a", "r">>, <<"A", "p", "r">>,
       <<"M", "a", "y">>, <<"J", "u", "n">>, <<"J", "u", "l">>, <<"A", "u", "g">>,
       <<"S", "e", "p">>, <<"O", "c", "t">>, <<"N", "o", "v">>, <<"D", "e", "c">> >>

\* the proleptic Gregorian date of a day number (days since 1970-01-01)
CivilFromDays(days) ==
    LET z   == days + 719468
        era == z \div 146097
        doe == z - era * 146097
        yoe == (doe - doe \div 1460 + doe \div 36524 - doe \div 146096) \div 365
        doy == doe - (365 * yoe + yoe \div 4 - yoe \div 100)
        mp  == (5 * doy + 2) \div 153
        m   == IF mp < 10 THEN mp + 3 ELSE mp - 9
    IN  [year  |-> yoe + era * 400 + (IF m <= 2 THEN 1 ELSE 0),
         month |-> m,
         day   |-> doy - (153 * mp + 2) \div 5 + 1]

Pad2(n) == IF n < 10 THEN <<"0">> \o NumberToString(n) ELSE NumberToString(n)

MomentFormat(date, utcOffset) ==
    IF date.nan THEN <<"I", "n", "v", "a", "l", "i", "d", " ", "d", "a", "t", "e">>
    ELSE LET local == date.value + utcOffset * 60
             civil == CivilFromDays(local \div 86400)
             hour  == (local % 86400) \div 3600
             h12   == IF hour % 12 = 0 THEN 12 ELSE hour % 12
         IN  MonthsShort[civil.month] \o <<" ">> \o NumberToString(civil.day) \o <<",", " ">>
                 \o NumberToString(civil.year) \o <<" ">> \o Pad2(h12) \o <<":">>
                 \o Pad2(civil.month) \o (IF hour < 12 THEN <<"a", "m">> ELSE <<"p", "m">>)

(***************************************************************************)
(* JSON values, JSON.stringify and JSON.parse.  An object is the sequence  *)
(* of its members in insertion order.  The texts hold strings of the       *)
(* printable characters of the inputs and non-negative integers.           *)
(***************************************************************************)
JString(s) == [type |-> "string", chars |-> s]

JNumber(n) == [type |-> "number", value |-> n]

JArray(items) == [type |-> "array", items |-> items]

JObject(members) == [type |-> "object", members |-> members]

Member(key, value) == [key |-> key, value |-> value]

SyntaxError == [threw |-> "SyntaxError"]

TypeError == [threw |-> "TypeError"]

\* the characters of a string between its quotes: quote and backslash escaped
RECURSIVE EscapeChars(_)
EscapeChars(s) ==
    IF s = <<>> THEN <<>>
    ELSE (IF Head(s) \in {Quote, Backslash} THEN <<Backslash, Head(s)>> ELSE <<Head(s)>>)
             \o EscapeChars(Tail(s))

QuoteString(s) == <<Quote>> \o EscapeChars(s) \o <<Quote>>

RECURSIVE JsonStringify(_)
RECURSIVE StringifyItems(_)
RECURSIVE StringifyMembers(_)
JsonStringify(v) ==
    IF v.type = "string" THEN QuoteString(v.chars)
    ELSE IF v.type = "number" THEN NumberToString(v.value)
    ELSE IF v.type = "array" THEN <<"[">> \o StringifyItems(v.items) \o <<"]">>
    ELSE <<"{">> \o StringifyMembers(v.members) \o <<"}">>

StringifyItems(items) ==
    IF items = <<>> THEN <<>>
    ELSE JsonStringify(Head(items))
             \o (IF Len(items) > 1 THEN <<",">> \o StringifyItems(Tail(items)) ELSE <<>>)

StringifyMembers(members) ==
    IF members = <<>> THEN <<>>
    ELSE QuoteString(Head(members).key) \o <<":">> \o JsonStringify(Head(members).value)
             \o (IF Len(members) > 1 THEN <<",">> \o StringifyMembers(Tail(members)) ELSE <<>>)

Failed == [ok |-> FALSE]

Parsed(value, rest) == [ok |-> TRUE, value |-> value, rest |-> rest]

\* the rest of a string after its opening quote: up to the closing quote
RECURSIVE ParseChars(_, _)
ParseChars(s, acc) ==
    IF s = <<>> THEN Failed
    ELSE IF Head(s) = Quote THEN Parsed(JString(acc), Tail(s))
    ELSE IF Head(s) = Backslash
    THEN IF Len(s) >= 2 /\ s[2] \in {Quote, Backslash, "/"}
         THEN ParseChars(Tail(Tail(s)), Append(acc, s[2]))
         ELSE Failed
    ELSE ParseChars(Tail(s), Append(acc, Head(s)))

\* a number: 0, or a digit run that does not start with 0
ParseNumber(s) ==
    LET run == IF Head(s) = "0" THEN <<"0">> ELSE LeadingDigits(s)
    IN  Parsed(JNumber(DecimalValue(run)), SubSeq(s, Len(run) + 1, Len(s)))

RECURSIVE ParseValue(_)
RECURSIVE ParseItems(_, _)
RECURSIVE ParseMembers(_, _)
ParseValue(s) ==
    IF s = <<>> THEN Failed
    ELSE IF Head(s) = Quote THEN ParseChars(Tail(s), <<>>)
    ELSE IF Head(s) \in DigitChars THEN ParseNumber(s)
    ELSE IF Head(s) = "["
    THEN IF Len(s) >= 2 /\ s[2] = "]" THEN Parsed(JArray(<<>>), Tail(Tail(s)))
         ELSE ParseItems(Tail(s), <<>>)
    ELSE IF Head(s) = "{"
    THEN IF Len(s) >= 2 /\ s[2] = "}" THEN Parsed(JObject(<<>>), Tail(Tail(s)))
         ELSE ParseMembers(Tail(s), <<>>)
    ELSE Failed

\* value (, value)* ]
ParseItems(s, acc) ==
    LET v == ParseValue(s)
    IN  IF ~v.ok \/ v.rest = <<>> THEN Failed
        ELSE IF Head(v.rest) = "]" THEN Parsed(JArray(Append(acc, v.value)), Tail(v.rest))
        ELSE IF Head(v.rest) = "," THEN ParseItems(Tail(v.rest), Append(acc, v.value))
        ELSE Failed

\* string : value (, string : value)* }
ParseMembers(s, acc) ==
    LET k == IF s # <<>> /\ Head(s) = Quote THEN ParseChars(Tail(s), <<>>) ELSE Failed
        v == IF k.ok /\ k.rest # <<>> /\ Head(k.rest) = ":" THEN ParseValue(Tail(k.rest))
             ELSE Failed
    IN  IF ~v.ok \/ v.rest = <<>> THEN Failed
        ELSE IF Head(v.rest) = "}"
        THEN Parsed(JObject(Append(acc, Member(k.value.chars, v.value))), Tail(v.rest))
        ELSE IF Head(v.rest) = ","
        THEN ParseMembers(Tail(v.rest), Append(acc, Member(k.value.chars, v.value)))
        ELSE Failed

\* JSON.parse(text): the value, or SyntaxError thrown
JsonParse(text) ==
    LET v == ParseValue(text)
    IN  IF v.ok /\ v.rest = <<>> THEN v.value ELSE SyntaxError

\* v[key] of a parsed value: the last member of that name, undefined without one
GetMember(v, key) ==
    IF v = undefined \/ v.type # "object" THEN undefined
    ELSE LET at == {i \in 1..Len(v.members) : v.members[i].key = key}
         IN  IF at = {} THEN undefined
             ELSE v.members[CHOOSE i \in at : \A j \in at : j <= i].value

\* v[i] of a parsed value
GetItem(v, i) ==
    IF v = undefined \/ v.type # "array" \/ i >= Len(v.items) THEN undefined
    ELSE v.items[i + 1]

(***************************************************************************)
(* Uri.parse(value): scheme, authority, path, query and fragment cut at    *)
(* the first ":", "//", "?" and "#" as RFC 3986 appendix B does.           *)
(***************************************************************************)
UriParse(value) ==
    LET colon     == FirstOf(value, {":", "/", "?", "#"})
        hasScheme == colon > 0 /\ colon < Len(value) /\ value[colon + 1] = ":"
        scheme    == IF hasScheme THEN slice(value, 0, colon) ELSE <<>>
        r1        == IF hasScheme THEN slice(value, colon + 1, Len(value)) ELSE value
        hasAuth   == Len(r1) >= 2 /\ r1[1] = "/" /\ r1[2] = "/"
        a1        == slice(r1, 2, Len(r1))
        authority == IF hasAuth THEN slice(a1, 0, FirstOf(a1, {"/", "?", "#"})) ELSE <<>>
        r2        == IF hasAuth THEN slice(a1, Len(authority), Len(a1)) ELSE r1
        path      == slice(r2, 0, FirstOf(r2, {"?", "#"}))
        r3        == slice(r2, Len(path), Len(r2))
        hasQuery  == r3 # <<>> /\ r3[1] = "?"
        q1        == slice(r3, 1, Len(r3))
        query     == IF hasQuery THEN slice(q1, 0, FirstOf(q1, {"#"})) ELSE <<>>
        r4        == IF hasQuery THEN slice(q1, Len(query), Len(q1)) ELSE r3
    IN  [scheme |-> scheme, authority |-> authority, path |-> path, query |-> query,
         fragment |-> IF r4 # <<>> THEN slice(r4, 1, Len(r4)) ELSE <<>>]

(***************************************************************************)
(* Inputs: file names, hashes, text lines, texts and ranges.               *)
(***************************************************************************)
Files == {"a.ts", "b.ts"}

ShaA == <<"1", "a", "2", "b", "3", "c", "4", "d">>

ShaB == <<"^", "F", "0", "0", "d", "f", "a", "c">>

NotSha == <<"f", "a", "t", "a", "l", ":">>

Shas == {ShaA, ShaB}

Date1 ==
    [year |-> <<"2", "0", "1", "6">>, month |-> <<"0", "8">>, day |-> <<"3", "1">>,
     hour |-> <<"2", "3">>, minute |-> <<"0", "5">>, second |-> <<"5", "9">>,
     sign |-> "-", zone |-> <<"0", "4", "0", "0">>]

Date2 ==
    [year |-> <<"2", "0", "1", "5">>, month |-> <<"0", "2">>, day |-> <<"0", "1">>,
     hour |-> <<"0", "0">>, minute |-> <<"1", "0">>, second |-> <<"0", "0">>,
     sign |-> "+", zone |-> <<"0", "5", "3", "0">>]

LineA1 ==
    [sha |-> ShaA, fileName |-> <<"a", ".", "t", "s">>, originalLine |-> <<"3">>,
     author |-> <<"J", " ", "D", " ", " ">>, date |-> Date1, line |-> <<"1">>]

LineA2 ==
    [sha |-> ShaA, fileName |-> <<"o", ".", "t", "s">>, originalLine |-> <<"1", "0">>,
     author |-> <<" ", "K">>, date |-> Date2, line |-> <<"0", "2">>]

LineB ==
    [sha |-> ShaB, fileName |-> <<"a", ".", "t", "s">>, originalLine |-> <<"2">>,
     author |-> <<"K">>, date |-> Date2, line |-> <<"3">>]

\* matches: the original-line group takes any run without blanks
LineOdd ==
    [sha |-> ShaB, fileName |-> <<>>, originalLine |-> <<"x">>,
     author |-> <<>>, date |-> Date1, line |-> <<"4">>]

\* does not match: no hash at the start of the line
LineJunk ==
    [sha |-> NotSha, fileName |-> <<"a", ".", "t", "s">>, originalLine |-> <<"1">>,
     author |-> <<"J">>, date |-> Date1, line |-> <<"1">>]

TextLines == {LineA1, LineA2, LineB, LineOdd, LineJunk}

SeqsUpTo(S, n) == UNION {[1..k -> S] : k \in 0..n}

\* every text the collaborator may return, up to MaxTextLines text lines
Texts == SeqsUpTo(TextLines, MaxTextLines)

\* the texts the collaborator returns in the cache specification
CacheTexts == {<<LineJunk>>, <<LineB>>}

Position(line, character) == [line |-> line, character |-> character]

\* new Range(startLine, startCharacter, endLine, endCharacter): start before end
Range(sl, sc, el, ec) ==
    IF sl < el \/ (sl = el /\ sc <= ec)
    THEN [start |-> Position(sl, sc), end |-> Position(el, ec)]
    ELSE [start |-> Position(el, ec), end |-> Position(sl, sc)]

Ranges == {Range(sl, 0, el, 0) : sl, el \in 0..MaxRangeLine}

CacheRanges == {Range(0, 0, MaxRangeLine, 0)}

CacheShas == {ShaA}

\* the files the range operations are called for in the cache specification
RequestFiles == {"a.ts"}

(***************************************************************************)
(* toBlameUri and fromBlameUri.                                            *)
(***************************************************************************)
\* DocumentSchemes.GitBlame: a scheme name, which holds none of : / ? #
DocumentSchemesGitBlame == <<"g", "i", "t", "b", "l", "a", "m", "e">>

Zeros == <<"0", "0", "0", "0", "0", "0", "0">>

\* pad(n) of toBlameUri: ("0000000" + n).slice(-("" + commitCount).length)
pad(n, commitCount) ==
    LET s == Zeros \o NumberToString(n)
    IN  slice(s, 0 - Len(NumberToString(commitCount)), Len(s))

KeyFileName == <<"f", "i", "l", "e", "N", "a", "m", "e">>

KeySha == <<"s", "h", "a">>

KeyRange == <<"r", "a", "n", "g", "e">>

KeyIndex == <<"i", "n", "d", "e", "x">>

KeyLine == <<"l", "i", "n", "e">>

KeyCharacter == <<"c", "h", "a", "r", "a", "c", "t", "e", "r">>

\* what JSON.stringify sees of a Position and of a Range (their toJSON)
PositionToJSON(p) ==
    JObject(<<Member(KeyLine, JNumber(p.line)), Member(KeyCharacter, JNumber(p.character))>>)

RangeToJSON(range) == JArray(<<PositionToJSON(range.start), PositionToJSON(range.end)>>)

\* the IGitBlameUriData of toBlameUri
UriData(repoPath, commit, range, index) ==
    JObject(<<Member(KeyFileName, JString(join(repoPath, commit.fileName))),
              Member(KeySha, JString(commit.sha)),
              Member(KeyRange, RangeToJSON(range)),
              Member(KeyIndex, JNumber(index))>>)

\* the text toBlameUri hands to Uri.parse
BlameUriText(repoPath, commit, range, index, commitCount, utcOffset) ==
    LET ext  == extname(commit.fileName)
        path == dirname(commit.fileName) \o <<"/">> \o commit.sha \o <<":", " ">>
                    \o basename(commit.fileName, ext) \o ext
    IN  DocumentSchemesGitBlame \o <<":">> \o pad(index, commitCount) \o <<".", " ">>
            \o commit.author \o <<",", " ">> \o MomentFormat(commit.date, utcOffset)
            \o <<" ", "-", " ">> \o path \o <<"?">>
            \o JsonStringify(UriData(repoPath, commit, range, index))

ToBlameUri(repoPath, commit, range, index, commitCount, utcOffset) ==
    UriParse(BlameUriText(repoPath, commit, range, index, commitCount, utcOffset))

IsNumber(v) == v # undefined /\ v.type = "number"

\* fromBlameUri(uri): the data with its range rebuilt, or what it throws
FromBlameUri(uri) ==
    LET data  == JsonParse(uri.query)
        range == GetMember(data, KeyRange)
        p0    == GetItem(range, 0)
        p1    == GetItem(range, 1)
        c     == <<GetMember(p0, KeyLine), GetMember(p0, KeyCharacter),
                   GetMember(p1, KeyLine), GetMember(p1, KeyCharacter)>>
    IN  IF data = SyntaxError THEN SyntaxError
        ELSE IF p0 = undefined \/ p1 = undefined THEN TypeError
        ELSE IF \E i \in 1..4 : ~IsNumber(c[i]) THEN [threw |-> "illegalArgument"]
        ELSE [fileName |-> GetMember(data, KeyFileName),
              sha      |-> GetMember(data, KeySha),
              range    |-> Range(c[1].value, c[2].value, c[3].value, c[4].value),
              index    |-> GetMember(data, KeyIndex)]

\* the arguments of toBlameUri
RepoPaths == {<<"/", "r">>, <<"r", "/">>}

UriFileNames ==
    {<<"a", ".", "t", "s">>, <<"d", "/", "a", ".", "t", "s">>, <<"a", "#", ".", "t", "s">>,
     <<"d", "/", "q", "?">>, <<Quote, "a", Backslash>>}

UriAuthors == {<<"K">>, <<"J", " ", "D">>, <<"W", "h", "o", "?">>}

UriCommits ==
    {[sha |-> ShaA, fileName |-> f, author |-> a, date |-> d] :
        f \in UriFileNames, a \in UriAuthors, d \in {NewDate(Date1), NewDate(Date2)}}

UriRanges == {Range(0, sc, el, ec) : el \in {0, MaxRangeLine}, sc \in 0..MaxCharacter,
                                     ec \in 0..MaxCharacter}

Indexes == {0, 5, 12}

CommitCounts == {9, 12, 100000000}

\* the zones of the host, in minutes east of UTC
UtcOffsets == {0, -240}

UriArgs ==
    [repoPath : RepoPaths, commit : UriCommits, range : UriRanges, index : Indexes,
     commitCount : CommitCounts, utcOffset : UtcOffsets]

(***************************************************************************)
(* State.                                                                  *)
(*   _files        the Map of the provider: file name -> identity of the   *)
(*                 cached promise (0: no entry)                            *)
(*   computations  every promise blameFile has created, by identity: the   *)
(*                 file it was asked for, its state, the raw text its      *)
(*                 gitBlame call returned and the value it settled with    *)
(*   requests      the promises getBlameForRange and getBlameForShaRange   *)
(*                 have chained on a computation                           *)
(*   gitBlameCalls number of gitBlame(fileName) calls per file             *)
(*   subscribed    whether _subscriptions still delivers notifications     *)
(*   lastIndex     blameMatcher.lastIndex                                  *)
(* History.                                                                *)
(*   handed        the promise the latest blameFile(f) returned (0: none)  *)
(*   since         what happened to f last: "none", "call" (blameFile      *)
(*                 returned), "again" (blameFile returned, and nothing but *)
(*                 blameFile returned since the call before),              *)
(*                 "notify" (close/change), "dispose"                      *)
(*   invalidated   the promises a notification or dispose took out of      *)
(*                 _files                                                  *)
(* Resource identifiers.                                                   *)
(*   encoded       the arguments of the toBlameUri call (undefined: none)  *)
(*   blameUri      the Uri toBlameUri returned (undefined: not called)     *)
(*   decoded       what fromBlameUri returned or threw for blameUri        *)
(***************************************************************************)
VARIABLES _files, computations, requests, gitBlameCalls, subscribed, lastIndex,
          handed, since, invalidated, encoded, blameUri, decoded

vars == <<_files, computations, requests, gitBlameCalls, subscribed, lastIndex,
          handed, since, invalidated, encoded, blameUri, decoded>>

uriVars == <<encoded, blameUri, decoded>>

Ids == 1..Len(computations)

Init ==
    /\ _files = [f \in Files |-> 0]
    /\ computations = <<>>
    /\ requests = <<>>
    /\ gitBlameCalls = [f \in Files |-> 0]
    /\ subscribed = TRUE
    /\ lastIndex = 0
    /\ handed = [f \in Files |-> 0]
    /\ since = [f \in Files |-> "none"]
    /\ invalidated = {}
    /\ encoded = undefined
    /\ blameUri = undefined
    /\ decoded = undefined

\* a lookup that finds settled entries only (a cache of results, not of promises)
FilesGetSettledOnly(fileName) ==
    IF _files[fileName] # 0 /\ computations[_files[fileName]].state = "pending"
    THEN 0 ELSE _files[fileName]

\* a lookup that treats a rejected entry as absent (retry on failure)
FilesGetSkipRejected(fileName) ==
    IF _files[fileName] # 0 /\ computations[_files[fileName]].state = "rejected"
    THEN 0 ELSE _files[fileName]

\* this._files.get(fileName); 0 stands for undefined
FilesGet(fileName) == _files[fileName]

\* a blameFile that never stores the promise it created
FilesSetDropped(fileName, c) == _files

\* this._files.set(fileName, blame)
FilesSet(fileName, c) == [_files EXCEPT ![fileName] = c]

\* gitBlame(fileName).then(...): a new pending promise
NewComputation(fileName) ==
    [file |-> fileName, state |-> "pending", data |-> <<>>, value |-> undefined]

\* blameFile(fileName), as called directly or from the two range operations
BlameFileCall(fileName) ==
    /\ IF FilesGet(fileName) # 0
       THEN /\ handed' = [handed EXCEPT ![fileName] = FilesGet(fileName)]
            /\ UNCHANGED <<_files, computations, gitBlameCalls>>
       ELSE /\ Len(computations) < MaxComputations
            /\ computations' = Append(computations, NewComputation(fileName))
            /\ gitBlameCalls' = [gitBlameCalls EXCEPT ![fileName] = @ + 1]
            /\ _files' = FilesSet(fileName, Len(computations) + 1)
            /\ handed' = [handed EXCEPT ![fileName] = Len(computations) + 1]
    /\ since' = [since EXCEPT ![fileName] = IF @ \in {"call", "again"} THEN "again" ELSE "call"]
    /\ UNCHANGED <<uriVars, subscribed, lastIndex, invalidated>>

blameFile(fileName) ==
    /\ BlameFileCall(fileName)
    /\ UNCHANGED requests

\* the value the then-callback of blameFile returns for the text data
ThenParse(data) ==
    LET r == ParseBlame(data, lastIndex)
    IN  [commits |-> r.commits, lines |-> r.lines]

\* a then-callback that stores its promise in _files again when it is done
GitBlameFulfilledCaching(c, data) ==
    /\ c \in Ids
    /\ computations[c].state = "pending"
    /\ computations' = [computations EXCEPT ![c].state = "fulfilled",
                                            ![c].data = data,
                                            ![c].value = ThenParse(data)]
    /\ lastIndex' = ParseBlame(data, lastIndex).lastIndex
    /\ _files' = [_files EXCEPT ![computations[c].file] = c]
    /\ UNCHANGED <<uriVars, requests, gitBlameCalls, subscribed, handed, since, invalidated>>

\* gitBlame's promise is fulfilled with data: the then-callback parses it and
\* the promise blameFile created is fulfilled with the result
GitBlameFulfilled(c, data) ==
    /\ c \in Ids
    /\ computations[c].state = "pending"
    /\ computations' = [computations EXCEPT ![c].state = "fulfilled",
                                            ![c].data = data,
                                            ![c].value = ThenParse(data)]
    /\ lastIndex' = ParseBlame(data, lastIndex).lastIndex
    /\ UNCHANGED <<uriVars, _files, requests, gitBlameCalls, subscribed, handed, since, invalidated>>

\* gitBlame's promise is rejected: the then-callback is skipped and the
\* promise blameFile created is rejected with the same reason
GitBlameRejected(c) ==
    /\ c \in Ids
    /\ computations[c].state = "pending"
    /\ computations' = [computations EXCEPT ![c].state = "rejected"]
    /\ UNCHANGED <<uriVars, _files, requests, gitBlameCalls, subscribed, lastIndex, handed, since,
                   invalidated>>

\* the sha of a request that takes none
NoSha == <<>>

NewRequest(op, c, sha, range) ==
    [op |-> op, on |-> c, sha |-> sha, range |-> range, state |-> "pending",
     value |-> undefined]

\* getBlameForRange(fileName, range): this.blameFile(fileName).then(...)
getBlameForRange(fileName, range) ==
    /\ Len(requests) < MaxRequests
    /\ BlameFileCall(fileName)
    /\ requests' = Append(requests, NewRequest("range", handed'[fileName], NoSha, range))

\* getBlameForShaRange(fileName, sha, range): this.blameFile(fileName).then(...)
getBlameForShaRange(fileName, sha, range) ==
    /\ Len(requests) < MaxRequests
    /\ BlameFileCall(fileName)
    /\ requests' = Append(requests, NewRequest("shaRange", handed'[fileName], sha, range))

\* a then-callback that throws when the hash has no commit record
ThenOutcomeThrowing(q, c) ==
    IF c.state = "rejected" \/ (q.op = "shaRange" /\ ~MapHas(c.value.commits, q.sha))
    THEN [q EXCEPT !.state = "rejected"]
    ELSE [q EXCEPT !.state = "fulfilled",
                   !.value = IF q.op = "range" THEN BlameForRange(c.value, q.range)
                             ELSE BlameForShaRange(c.value, q.sha, q.range)]

\* the outcome of a chained promise once the promise it is chained on settled
ThenOutcome(q, c) ==
    IF c.state = "rejected" THEN [q EXCEPT !.state = "rejected"]
    ELSE [q EXCEPT !.state = "fulfilled",
                   !.value = IF q.op = "range" THEN BlameForRange(c.value, q.range)
                             ELSE BlameForShaRange(c.value, q.sha, q.range)]

\* a then-callback that cuts the range out of blame.lines in place (splice)
RunThenSplicing(q) ==
    /\ q \in 1..Len(requests)
    /\ requests[q].state = "pending"
    /\ computations[requests[q].on].state # "pending"
    /\ requests' = [requests EXCEPT ![q] = ThenOutcome(requests[q], computations[requests[q].on])]
    /\ computations' =
          IF computations[requests[q].on].state = "fulfilled"
          THEN [computations EXCEPT ![requests[q].on].value.lines =
                    slice(@, requests[q].range.start.line, requests[q].range.end.line + 1)]
          ELSE computations
    /\ UNCHANGED <<uriVars, _files, gitBlameCalls, subscribed, lastIndex, handed, since, invalidated>>

\* the then-callback of a range operation runs after its blameFile promise settled
RunThen(q) ==
    /\ q \in 1..Len(requests)
    /\ requests[q].state = "pending"
    /\ computations[requests[q].on].state # "pending"
    /\ requests' = [requests EXCEPT ![q] = ThenOutcome(requests[q], computations[requests[q].on])]
    /\ UNCHANGED <<uriVars, _files, computations, gitBlameCalls, subscribed, lastIndex, handed, since,
                   invalidated>>

\* a _removeFile that deletes under a key no entry has
_removeFileMissed(fileName) ==
    /\ since' = [since EXCEPT ![fileName] = "notify"]
    /\ UNCHANGED <<uriVars, _files, invalidated, computations, requests, gitBlameCalls, subscribed,
                   lastIndex, handed>>

\* a _removeFile that also cancels the promise it removes
_removeFileCancelling(fileName) ==
    /\ _files' = [_files EXCEPT ![fileName] = 0]
    /\ invalidated' = invalidated \cup ({_files[fileName]} \ {0})
    /\ since' = [since EXCEPT ![fileName] = "notify"]
    /\ computations' = [c \in Ids |->
                           IF c = _files[fileName] /\ computations[c].state = "pending"
                           THEN [computations[c] EXCEPT !.state = "rejected"]
                           ELSE computations[c]]
    /\ UNCHANGED <<uriVars, requests, gitBlameCalls, subscribed, lastIndex, handed>>

\* a _removeFile that clears the whole Map
_removeFileAll(fileName) ==
    /\ _files' = [f \in Files |-> 0]
    /\ invalidated' = invalidated \cup ({_files[f] : f \in Files} \ {0})
    /\ since' = [since EXCEPT ![fileName] = "notify"]
    /\ UNCHANGED <<uriVars, computations, requests, gitBlameCalls, subscribed, lastIndex, handed>>

\* _removeFile(fileName): this._files.delete(fileName)
_removeFile(fileName) ==
    /\ _files' = [_files EXCEPT ![fileName] = 0]
    /\ invalidated' = invalidated \cup ({_files[fileName]} \ {0})
    /\ since' = [since EXCEPT ![fileName] = "notify"]
    /\ UNCHANGED <<uriVars, computations, requests, gitBlameCalls, subscribed, lastIndex, handed>>

\* workspace.onDidCloseTextDocument(d => this._removeFile(d.fileName))
onDidCloseTextDocument(fileName) ==
    /\ subscribed
    /\ _removeFile(fileName)

\* workspace.onDidChangeTextDocument(e => this._removeFile(e.document.fileName))
onDidChangeTextDocument(fileName) ==
    /\ subscribed
    /\ _removeFile(fileName)

\* a dispose that forgets this._files.clear()
disposeSubscriptionsOnly ==
    /\ subscribed' = FALSE
    /\ since' = [f \in Files |-> "dispose"]
    /\ UNCHANGED <<uriVars, _files, invalidated, computations, requests, gitBlameCalls, lastIndex, handed>>

\* dispose(): this._files.clear(); this._subscriptions.dispose()
dispose ==
    /\ _files' = [f \in Files |-> 0]
    /\ subscribed' = FALSE
    /\ invalidated' = invalidated \cup ({_files[f] : f \in Files} \ {0})
    /\ since' = [f \in Files |-> "dispose"]
    /\ UNCHANGED <<uriVars, computations, requests, gitBlameCalls, lastIndex, handed>>

(***************************************************************************)
(* The cache specification: two files, any interleaving of calls,          *)
(* notifications, dispose and collaborator responses.                      *)
(***************************************************************************)
\* toBlameUri(repoPath, commit, range, index, commitCount) with the arguments encoded
toBlameUri ==
    /\ encoded # undefined
    /\ blameUri = undefined
    /\ blameUri' = ToBlameUri(encoded.repoPath, encoded.commit, encoded.range, encoded.index,
                              encoded.commitCount, encoded.utcOffset)
    /\ UNCHANGED <<encoded, decoded>>
    /\ UNCHANGED <<_files, computations, requests, gitBlameCalls, subscribed, lastIndex,
                   handed, since, invalidated>>

\* fromBlameUri(uri) for the uri toBlameUri returned
fromBlameUri ==
    /\ blameUri # undefined
    /\ decoded = undefined
    /\ decoded' = FromBlameUri(blameUri)
    /\ UNCHANGED <<encoded, blameUri>>
    /\ UNCHANGED <<_files, computations, requests, gitBlameCalls, subscribed, lastIndex,
                   handed, since, invalidated>>

Next ==
    \/ \E f \in Files : blameFile(f)
    \/ \E c \in Ids, data \in CacheTexts : GitBlameFulfilled(c, data)
    \/ \E c \in Ids : GitBlameRejected(c)
    \/ \E f \in RequestFiles, r \in CacheRanges : getBlameForRange(f, r)
    \/ \E f \in RequestFiles, sha \in CacheShas, r \in CacheRanges : getBlameForShaRange(f, sha, r)
    \/ \E q \in 1..Len(requests) : RunThen(q)
    \/ \E f \in Files : onDidCloseTextDocument(f)
    \/ \E f \in Files : onDidChangeTextDocument(f)
    \/ dispose

Spec == Init /\ [][Next]_vars

(***************************************************************************)
(* The parse specification: one file, one computation, every text up to    *)
(* MaxTextLines lines, every range and hash.                               *)
(***************************************************************************)
File1 == "a.ts"

NextParse ==
    \/ computations = <<>> /\ blameFile(File1)
    \/ \E data \in Texts : GitBlameFulfilled(1, data)
    \/ \E r \in Ranges : _files[File1] # 0 /\ requests = <<>> /\ getBlameForRange(File1, r)
    \/ \E sha \in Shas, r \in Ranges :
          _files[File1] # 0 /\ requests = <<>> /\ getBlameForShaRange(File1, sha, r)
    \/ \E q \in 1..Len(requests) : RunThen(q)

SpecParse == Init /\ [][NextParse]_vars

(***************************************************************************)
(* The resource identifiers: toBlameUri for every argument tuple, then     *)
(* fromBlameUri for the Uri it returned.                                   *)
(***************************************************************************)
InitUri ==
    /\ _files = [f \in Files |-> 0]
    /\ computations = <<>>
    /\ requests = <<>>
    /\ gitBlameCalls = [f \in Files |-> 0]
    /\ subscribed = TRUE
    /\ lastIndex = 0
    /\ handed = [f \in Files |-> 0]
    /\ since = [f \in Files |-> "none"]
    /\ invalidated = {}
    /\ encoded \in UriArgs
    /\ blameUri = undefined
    /\ decoded = undefined

NextUri ==
    \/ toBlameUri
    \/ fromBlameUri

SpecUri == InitUri /\ [][NextUri]_vars

(***************************************************************************)
(* Properties of the cache (specification Spec).                           *)
(***************************************************************************)
Pending(f) == {c \in Ids : computations[c].file = f /\ computations[c].state = "pending"}

Live(f) == {c \in Ids : computations[c].file = f /\ c \notin invalidated}

\* C1: two blameFile(f) calls with no close/change notification and no
\* dispose for f between them return the same promise, and gitBlame has been
\* called exactly once for f since the last invalidation, whatever the state
\* of the promise at the second call.
C1_SameComputation ==
    /\ [](\A f \in Files : since[f] \in {"call", "again"} =>
              /\ handed[f] \in Ids
              /\ Live(f) = {handed[f]})
    /\ [][\A f \in Files : (BlameFileCall(f) /\ since[f] \in {"call", "again"}) =>
              /\ handed'[f] = handed[f]
              /\ gitBlameCalls'[f] = gitBlameCalls[f]
              /\ computations' = computations]_vars

C1_Witness ==
    \E f \in Files, g \in Files :
        /\ f # g
        /\ since[f] = "again" /\ since[g] = "again"
        /\ gitBlameCalls[f] = 1 /\ gitBlameCalls[g] = 1
        /\ computations[handed[f]].state = "pending"
        /\ computations[handed[g]].state = "rejected"

\* C2: the first blameFile(f) call after a close/change notification for f
\* calls gitBlame again and returns a new promise, never one that was cached
\* before the notification.
C2_RecomputeAfterNotification ==
    [][\A f \in Files : (BlameFileCall(f) /\ since[f] = "notify") =>
          /\ gitBlameCalls'[f] = gitBlameCalls[f] + 1
          /\ handed'[f] \notin Ids
          /\ handed'[f] \notin invalidated'
          /\ computations'[handed'[f]].state = "pending"
          /\ _files'[f] = handed'[f]]_vars

C2_Witness ==
    \E f \in Files, c \in invalidated :
        /\ computations[c].file = f
        /\ computations[c].state = "rejected"
        /\ since[f] = "call"
        /\ handed[f] # c
        /\ gitBlameCalls[f] = 2

\* C3 as claimed: at most one outstanding computation per file identifier.
C3_AtMostOneOutstanding ==
    \A f \in Files : Cardinality(Pending(f)) <= 1

\* C3 as amended: at most one outstanding computation per file identifier
\* among those that no notification or dispose has taken out of the cache;
\* every other outstanding computation of the file was invalidated while
\* pending, and the cache holds none of those.
C3_AtMostOneLiveOutstanding ==
    \A f \in Files :
        /\ Cardinality(Pending(f) \ invalidated) <= 1
        /\ \A c \in Pending(f) \ invalidated : _files[f] = c

C3_Witness ==
    \E f \in Files : \E c \in Pending(f), d \in Pending(f) :
        c \in invalidated /\ d \notin invalidated /\ _files[f] = d

RejectedEntry(f) == _files[f] # 0 /\ computations[_files[f]].state = "rejected"

\* C4, the part both statements share: a rejected promise stays rejected and
\* stays in the cache; blameFile returns it without calling gitBlame again,
\* and every range operation chained on it is rejected as well.
C4_FailureIsShared ==
    /\ [](\A q \in 1..Len(requests) :
              (requests[q].state # "pending" /\ computations[requests[q].on].state = "rejected")
                  => requests[q].state = "rejected")
    /\ [][\A c \in Ids : computations[c].state = "rejected" => computations'[c] = computations[c]]_vars
    /\ [][\A f \in Files : (RejectedEntry(f) /\ BlameFileCall(f)) =>
              /\ handed'[f] = _files[f]
              /\ _files'[f] = _files[f]
              /\ gitBlameCalls'[f] = gitBlameCalls[f]]_vars

\* C4 as claimed: the rejected entry of f stays cached and shared, and only a
\* close/change notification for f removes it.
C4_OnlyNotificationRemoves ==
    /\ C4_FailureIsShared
    /\ [][\A f \in Files : (RejectedEntry(f) /\ _files'[f] # _files[f]) =>
              /\ since'[f] = "notify"
              /\ _files'[f] = 0]_vars
    /\ [][\A f \in Files : (BlameFileCall(f) /\ since[f] = "notify") =>
              gitBlameCalls'[f] = gitBlameCalls[f] + 1]_vars

\* C4 as amended: the rejected entry of f stays cached and shared until a
\* close/change notification for f or dispose removes it, and the next
\* request after that calls gitBlame again.
C4_FailureCachedUntilInvalidated ==
    /\ C4_FailureIsShared
    /\ [][\A f \in Files : (RejectedEntry(f) /\ _files'[f] # _files[f]) =>
              /\ since'[f] \in {"notify", "dispose"}
              /\ _files'[f] = 0]_vars
    /\ [][\A f \in Files : (BlameFileCall(f) /\ since[f] \in {"notify", "dispose"}) =>
              gitBlameCalls'[f] = gitBlameCalls[f] + 1]_vars

C4_Witness ==
    \E f \in Files, q \in 1..Len(requests) :
        /\ RejectedEntry(f)
        /\ since[f] = "again"
        /\ requests[q].on = _files[f]
        /\ requests[q].state = "rejected"
        /\ gitBlameCalls[f] = 2

\* C8: a close/change notification neither settles nor alters a pending
\* promise: a promise changes only when its own gitBlame call responds, it
\* then holds the outcome of that response, the range operations chained on
\* it get that outcome, and blameFile hands out a different promise only
\* after an invalidation.
C8_PendingSurvivesNotification ==
    /\ [][\A c \in Ids : computations'[c] # computations[c] =>
              /\ computations[c].state = "pending"
              /\ \/ GitBlameRejected(c)
                 \/ \E data \in CacheTexts :
                       /\ GitBlameFulfilled(c, data)
                       /\ computations'[c].value = ThenParse(data)]_vars
    /\ [](\A c \in invalidated : computations[c].state = "pending" =>
              ENABLED GitBlameRejected(c))
    /\ [](\A q \in 1..Len(requests) :
              requests[q].state # "pending" => requests[q].state = computations[requests[q].on].state)
    /\ [][\A f \in Files : (BlameFileCall(f) /\ handed[f] # 0 /\ handed'[f] # handed[f]) =>
              since[f] \in {"notify", "dispose"}]_vars

C8_Witness ==
    \E f \in Files, c \in invalidated, q \in 1..Len(requests) :
        /\ computations[c].file = f
        /\ computations[c].state = "fulfilled"
        /\ computations[c].value.lines # <<>>
        /\ requests[q].on = c
        /\ requests[q].state = "fulfilled"
        /\ _files[f] \notin {0, c}
        /\ computations[_files[f]].state = "pending"

Settles(c) == computations[c].state = "pending" /\ computations'[c].state # "pending"

\* C12: the completion of a computation, fulfilled or rejected, never changes
\* the cache mapping: a computation invalidated while pending is not put back
\* when it completes, the cache keeps a newer computation of the file, and no
\* blameFile call returns a computation that was invalidated.
C12_CompletionLeavesCache ==
    /\ [][\A c \in Ids : Settles(c) => _files' = _files]_vars
    /\ [](\A c \in invalidated : \A f \in Files : _files[f] # c)
    /\ [][\A f \in Files : BlameFileCall(f) => handed'[f] \notin invalidated']_vars

C12_Witness ==
    \E f \in Files, c \in invalidated :
        /\ computations[c].file = f
        /\ computations[c].state \in {"fulfilled", "rejected"}
        /\ since[f] \in {"call", "again"}
        /\ _files[f] = handed[f]
        /\ handed[f] > c
        /\ computations[handed[f]].state = "pending"

\* C14: a close/change notification for f removes the cache entry of f only:
\* the entries of the other files, the computations and the chained promises
\* stay as they are, and without an entry for f the cache does not change.
C14_NotificationFrame ==
    [][\A f \in Files : (onDidCloseTextDocument(f) \/ onDidChangeTextDocument(f)) =>
          /\ _files'[f] = 0
          /\ \A g \in Files \ {f} : _files'[g] = _files[g]
          /\ computations' = computations
          /\ requests' = requests
          /\ invalidated' \ invalidated = {_files[f]} \ {0}
          /\ _files[f] = 0 => _files' = _files]_vars

C14_Witness ==
    \E f \in Files, g \in Files :
        /\ f # g
        /\ since[f] = "notify"
        /\ handed[f] \in invalidated
        /\ _files[f] = 0
        /\ since[g] \in {"call", "again"}
        /\ _files[g] = handed[g]
        /\ handed[g] < handed[f]

\* C18: dispose removes every cache entry, the first blameFile call for a file
\* after dispose calls gitBlame again and caches a new promise, and a
\* computation that was pending at dispose is not put back when it completes.
C18_DisposeClears ==
    /\ [][dispose => \A f \in Files : _files'[f] = 0]_vars
    /\ [][\A f \in Files : (BlameFileCall(f) /\ since[f] = "dispose") =>
              /\ gitBlameCalls'[f] = gitBlameCalls[f] + 1
              /\ handed'[f] \notin Ids
              /\ _files'[f] = handed'[f]]_vars
    /\ [][\A c \in Ids : (Settles(c) /\ c \in invalidated) =>
              \A f \in Files : _files'[f] # c]_vars

C18_Witness ==
    \E f \in Files, c \in invalidated :
        /\ ~subscribed
        /\ computations[c].file = f
        /\ computations[c].state = "fulfilled"
        /\ since[f] = "call"
        /\ gitBlameCalls[f] = 2
        /\ _files[f] = handed[f]
        /\ handed[f] # c

\* C19: every parse starts with blameMatcher.lastIndex = 0, so the value of a
\* computation is the parse of its own text from the first line, and two
\* computations that received the same text hold equal lines and commits.
C19_ParseDependsOnTextOnly ==
    /\ lastIndex = 0
    /\ \A c \in Ids : computations[c].state = "fulfilled" =>
          /\ Len(computations[c].value.lines) = Cardinality({i \in 1..Len(computations[c].data) :
                                                                Matches(computations[c].data[i])})
          /\ \A d \in Ids :
                (computations[d].state = "fulfilled" /\ computations[d].data = computations[c].data)
                    => computations[d].value = computations[c].value

C19_Witness ==
    \E c \in Ids, d \in Ids :
        /\ c # d
        /\ computations[c].file # computations[d].file
        /\ computations[c].state = "fulfilled" /\ computations[d].state = "fulfilled"
        /\ computations[c].data = <<LineB>> /\ computations[d].data = <<LineB>>
        /\ Len(computations[c].value.lines) = 1
        /\ computations[d].value = computations[c].value

(***************************************************************************)
(* Properties of parsing and of the range views (specification SpecParse). *)
(***************************************************************************)
RECURSIVE ToDigits(_)
ToDigits(n) == IF n < 10 THEN <<Digits[n + 1]>> ELSE ToDigits(n \div 10) \o <<Digits[(n % 10) + 1]>>

RECURSIVE StripZeros(_)
StripZeros(t) == IF Len(t) > 1 /\ Head(t) = "0" THEN StripZeros(Tail(t)) ELSE t

\* the number n is one less than the decimal number the digit run t writes
OneLessThan(n, t) == ~n.nan /\ n.value >= -1 /\ ToDigits(n.value + 1) = StripZeros(t)

\* the run a is the run s without its leading and trailing blanks
IsTrimOf(a, s) ==
    /\ a = <<>> \/ (a[1] \notin SpaceChars /\ a[Len(a)] \notin SpaceChars)
    /\ \E i \in 0..Len(s) :
          /\ i + Len(a) <= Len(s)
          /\ SubSeq(s, i + 1, i + Len(a)) = a
          /\ \A j \in (1..i) \cup ((i + Len(a) + 1)..Len(s)) : s[j] \in SpaceChars

Matched(data) == {i \in 1..Len(data) : Matches(data[i])}

RangeRequests == {q \in 1..Len(requests) : requests[q].op = "range" /\ requests[q].state # "pending"}

ShaRangeRequests == {q \in 1..Len(requests) : requests[q].op = "shaRange" /\ requests[q].state # "pending"}

BlameOf(q) == computations[requests[q].on].value

\* C5: for a blame with lines L # <<>>, getBlameForRange yields the lines of L
\* at positions start.line..end.line (clipped to L), in order, and a commit
\* map whose keys are the hashes of those lines, each with the record the
\* full blame holds for it.
C5_RangeSlice ==
    \A q \in RangeRequests :
        LET L   == BlameOf(q).lines
            s   == requests[q].range.start.line
            e   == requests[q].range.end.line
            res == requests[q].value
            P   == {p \in 0..(Len(L) - 1) : s <= p /\ p <= e}
        IN  Len(L) > 0 =>
              /\ requests[q].state = "fulfilled"
              /\ Len(res.lines) = Cardinality(P)
              /\ \A k \in 1..Len(res.lines) : (s + k - 1) \in P /\ res.lines[k] = L[s + k]
              /\ DOMAIN res.commits = {res.lines[k].sha : k \in 1..Len(res.lines)}
              /\ \A h \in DOMAIN res.commits :
                    h \in DOMAIN BlameOf(q).commits /\ res.commits[h] = BlameOf(q).commits[h]

C5_Witness ==
    \E q \in RangeRequests :
        /\ Len(BlameOf(q).lines) = 3
        /\ requests[q].range.start.line = 1
        /\ requests[q].range.end.line = MaxRangeLine
        /\ Len(requests[q].value.lines) = 2
        /\ DOMAIN requests[q].value.commits = {ShaB}
        /\ DOMAIN BlameOf(q).commits = {ShaA, ShaB}

\* C6: getBlameForShaRange yields the lines of the full sequence at positions
\* start.line..end.line whose hash is h, in order, and the commit record the
\* full blame holds for h.
C6_ShaRangeFilter ==
    \A q \in ShaRangeRequests :
        LET L   == BlameOf(q).lines
            s   == requests[q].range.start.line
            e   == requests[q].range.end.line
            h   == requests[q].sha
            res == requests[q].value
            P   == {p \in 1..Len(L) : s + 1 <= p /\ p <= e + 1 /\ L[p].sha = h}
        IN  /\ requests[q].state = "fulfilled"
            /\ Len(res.lines) = Cardinality(P)
            /\ \A p \in P : res.lines[Cardinality({r \in P : r <= p})] = L[p]
            /\ h \in DOMAIN BlameOf(q).commits => res.commit = BlameOf(q).commits[h]

C6_Witness ==
    \E q \in ShaRangeRequests :
        /\ Len(BlameOf(q).lines) = 3
        /\ BlameOf(q).lines[1].sha = ShaB
        /\ requests[q].sha = ShaB
        /\ requests[q].range.start.line = 1
        /\ Len(requests[q].value.lines) = 1
        /\ requests[q].value.commit.sha = ShaB

\* C9: for a text without a matching line blameFile yields no lines and no
\* commits, and getBlameForRange yields that very blame object, for every
\* range, without failing.
C9_EmptyBlame ==
    /\ \A c \in Ids : (computations[c].state = "fulfilled" /\ Matched(computations[c].data) = {}) =>
          /\ computations[c].value.lines = <<>>
          /\ DOMAIN computations[c].value.commits = {}
    /\ \A q \in RangeRequests : Matched(computations[requests[q].on].data) = {} =>
          /\ requests[q].state = "fulfilled"
          /\ requests[q].value.object = "blame"
          /\ requests[q].value.lines = <<>>
          /\ DOMAIN requests[q].value.commits = {}

C9_Witness ==
    \E q \in RangeRequests :
        /\ computations[requests[q].on].data = <<LineJunk, LineJunk>>
        /\ requests[q].state = "fulfilled"
        /\ requests[q].range.start.line = 1
        /\ requests[q].value.lines = <<>>

\* C10: getBlameForShaRange with a hash the blame has no commit record for is
\* fulfilled with an undefined commit and no lines, for every range.
C10_UnknownSha ==
    \A q \in ShaRangeRequests : requests[q].sha \notin DOMAIN BlameOf(q).commits =>
        /\ requests[q].state = "fulfilled"
        /\ requests[q].value.commit = undefined
        /\ requests[q].value.lines = <<>>

C10_Witness ==
    \E q \in ShaRangeRequests :
        /\ requests[q].sha = ShaA
        /\ DOMAIN BlameOf(q).commits = {ShaB}
        /\ Len(BlameOf(q).lines) = 2
        /\ requests[q].range = Range(0, 0, 1, 0)
        /\ requests[q].state = "fulfilled"
        /\ requests[q].value.commit = undefined

\* the text numbers its lines 1, 2, 3, .. in physical order, matched or not
WellNumbered(data) == \A i \in 1..Len(data) : parseInt(data[i].line) = Num(i)

\* C13: every line record getBlameForRange returns has its line field between
\* range.start.line and range.end.line, also when the text holds lines that
\* do not match and are skipped.
C13_LinesWithinRange ==
    \A q \in RangeRequests :
        (requests[q].state = "fulfilled" /\ WellNumbered(computations[requests[q].on].data)) =>
            \A k \in 1..Len(requests[q].value.lines) :
                LET n == requests[q].value.lines[k].line
                IN  /\ ~n.nan
                    /\ requests[q].range.start.line <= n.value
                    /\ n.value <= requests[q].range.end.line

KeysAreHashes(b) ==
    /\ DOMAIN b.commits = {b.lines[k].sha : k \in 1..Len(b.lines)}
    /\ \A h \in DOMAIN b.commits : b.commits[h] # undefined /\ b.commits[h].sha = h

\* C15: in every blameFile and getBlameForRange result the keys of the commit
\* map are exactly the hashes of the result's lines and each record is stored
\* under its own sha; a getBlameForShaRange result with lines for hash h has
\* a commit, whose sha is h.
C15_CommitKeys ==
    /\ \A c \in Ids : computations[c].state = "fulfilled" => KeysAreHashes(computations[c].value)
    /\ \A q \in RangeRequests : requests[q].state = "fulfilled" => KeysAreHashes(requests[q].value)
    /\ \A q \in ShaRangeRequests :
          (requests[q].state = "fulfilled" /\ requests[q].value.lines # <<>>) =>
              /\ requests[q].value.commit # undefined
              /\ requests[q].value.commit.sha = requests[q].sha

C15_Witness ==
    \E q \in RangeRequests :
        /\ requests[q].state = "fulfilled"
        /\ requests[q].value.object = "new"
        /\ DOMAIN requests[q].value.commits # {}
        /\ DOMAIN requests[q].value.commits # DOMAIN BlameOf(q).commits
        /\ DOMAIN BlameOf(q).commits = Shas

\* C16: the range operations never modify the cached blame: a step that
\* starts one or runs its callback leaves every fulfilled computation and the
\* cache entry as they are, so the cached value stays the parse of its text
\* and a later blameFile returns it with the same lines and commits.
C16_RangeOpsKeepCachedBlame ==
    /\ [][requests' # requests =>
              /\ \A c \in Ids : computations[c].state = "fulfilled" =>
                                   computations'[c] = computations[c]
              /\ \A f \in Files : _files[f] # 0 => _files'[f] = _files[f]]_vars
    /\ [](\A c \in Ids : computations[c].state = "fulfilled" =>
              computations[c].value = [commits |-> ParseBlame(computations[c].data, 0).commits,
                                       lines   |-> ParseBlame(computations[c].data, 0).lines])
    /\ [][\A f \in Files : (BlameFileCall(f) /\ _files[f] # 0) => handed'[f] = _files[f]]_vars

C16_Witness ==
    \E q \in RangeRequests \cup ShaRangeRequests :
        /\ requests[q].state = "fulfilled"
        /\ Len(requests[q].value.lines) > 0
        /\ Len(requests[q].value.lines) < Len(BlameOf(q).lines)
        /\ _files[File1] = requests[q].on
        /\ handed[File1] = requests[q].on
        /\ BlameOf(q) = ThenParse(computations[requests[q].on].data)

(***************************************************************************)
(* Properties of the resource identifiers (specification SpecUri).         *)
(***************************************************************************)
\* C11: fromBlameUri of the Uri toBlameUri built returns the file path (the
\* root joined with the commit's file path), the hash, the range and the
\* index that were encoded, for every root, commit, range, index and count.
C11_RoundTrip ==
    decoded # undefined =>
        decoded = [fileName |-> JString(join(encoded.repoPath, encoded.commit.fileName)),
                   sha      |-> JString(encoded.commit.sha),
                   range    |-> encoded.range,
                   index    |-> JNumber(encoded.index)]

\* the padded index: the digits the path of the Uri starts with, before ". "
PaddedIndex == slice(blameUri.path, 0, FirstOf(blameUri.path, {"."}))

\* a is before b in the order of strings (by character, a prefix first)
RECURSIVE LexLess(_, _)
LexLess(a, b) ==
    IF b = <<>> THEN FALSE
    ELSE IF a = <<>> THEN TRUE
    ELSE IF Head(a) = Head(b) THEN LexLess(Tail(a), Tail(b))
    ELSE DigitValue(Head(a)) < DigitValue(Head(b))

\* C17: for 0 <= index <= commitCount the padded index has as many characters
\* as the decimal commitCount and its value is index, so the padded forms of
\* two such indexes i < j are in lexicographic order.
C17_PaddedIndex ==
    (blameUri # undefined /\ encoded.index <= encoded.commitCount) =>
        /\ Len(PaddedIndex) = Len(NumberToString(encoded.commitCount))
        /\ IsDigitRun(PaddedIndex)
        /\ DecimalValue(PaddedIndex) = encoded.index
        /\ \A j \in Indexes :
              (encoded.index < j /\ j <= encoded.commitCount) =>
                  LexLess(PaddedIndex, pad(j, encoded.commitCount))

====
